---- MODULE Spec2Model ----
(***************************************************************************)
(* Model of src/postprocess.py: the thermo-table parser of a LAMMPS log    *)
(* (parse_thermo_log), the column detection of main, and the sequence of   *)
(* output files main writes.  Text is modelled as sequences of characters  *)
(* (one-character strings), so that the regular expressions, str.strip,    *)
(* re.split, str.lower and pd.to_numeric are computed, not assumed.        *)
(***************************************************************************)
EXTENDS Integers, Sequences, FiniteSets, TLC

\* ------------------------------------------------------------------ bounds
MaxLines == 3
MaxFrames == 2
MaxCols == 3
MaxRows == 2

\* -------------------------------------------------------------- characters
\* U+017F LATIN SMALL LETTER LONG S, one character.
LongS == "U+017F"

UpperSeq ==
  <<"A","B","C","D","E","F","G","H","I","J","K","L","M",
    "N","O","P","Q","R","S","T","U","V","W","X","Y","Z">>

LowerSeq ==
  <<"a","b","c","d","e","f","g","h","i","j","k","l","m",
    "n","o","p","q","r","s","t","u","v","w","x","y","z">>

UpperSet == {UpperSeq[i] : i \in 1..26}

LowerSet == {LowerSeq[i] : i \in 1..26}

DigitSeq == <<"0","1","2","3","4","5","6","7","8","9">>

DigitSet == {DigitSeq[i] : i \in 1..10}

\* str.lower on one character: an ASCII capital maps to its small letter;
\* the long s is already lower case and stays as it is.
LowerChar(c) ==
  IF c \in UpperSet THEN LowerSeq[CHOOSE i \in 1..26 : UpperSeq[i] = c] ELSE c

\* str.lower
LowerStr(s) == [i \in 1..Len(s) |-> LowerChar(s[i])]

\* re.IGNORECASE on a literal pattern character p (a small ASCII letter or
\* "_"): the characters it matches.  Python's re matches both cases of the
\* letter and, for "s", also the long s (U+017F), whose upper case is "S".
IgnoreCaseMatch(c, p) ==
  \/ LowerChar(c) = p
  \/ (p = "s" /\ c = LongS)

\* \s of re, str.isspace of str.strip
IsSpace(c) == c \in {" ", "\t", "\n"}

\* \d
IsDigit(c) == c \in DigitSet

\* \w (decides \b)
IsWordChar(c) == c \in UpperSet \cup LowerSet \cup DigitSet \cup {"_", LongS}

\* ----------------------------------------------------------------- strings
\* Index of the first non-whitespace character, Len(s)+1 when there is none.
FirstNonSpace(s) ==
  IF \A i \in 1..Len(s) : IsSpace(s[i]) THEN Len(s) + 1
  ELSE CHOOSE i \in 1..Len(s) :
         /\ ~IsSpace(s[i])
         /\ \A j \in 1..(i-1) : IsSpace(s[j])

\* Index of the last non-whitespace character, 0 when there is none.
LastNonSpace(s) ==
  IF \A i \in 1..Len(s) : IsSpace(s[i]) THEN 0
  ELSE CHOOSE i \in 1..Len(s) :
         /\ ~IsSpace(s[i])
         /\ \A j \in (i+1)..Len(s) : IsSpace(s[j])

\* str.strip()
Strip(s) == SubSeq(s, FirstNonSpace(s), LastNonSpace(s))

\* re.split(r'\s+', s)
RECURSIVE SplitWs(_)
SplitWs(s) ==
  IF \A i \in 1..Len(s) : ~IsSpace(s[i]) THEN <<s>>
  ELSE LET i == CHOOSE k \in 1..Len(s) :
                  IsSpace(s[k]) /\ \A j \in 1..(k-1) : ~IsSpace(s[j])
           rest == SubSeq(s, i, Len(s))
           j == FirstNonSpace(rest)
       IN <<SubSeq(s, 1, i-1)>> \o SplitWs(SubSeq(rest, j, Len(rest)))

\* pat in s (Python's substring test)
ContainsSub(s, pat) ==
  \E off \in 0..(Len(s) - Len(pat)) :
    \A k \in 1..Len(pat) : s[off + k] = pat[k]

\* re.search(pat, s, re.IGNORECASE) for a literal pattern
SearchIgnoreCase(s, pat) ==
  \E off \in 0..(Len(s) - Len(pat)) :
    \A k \in 1..Len(pat) : IgnoreCaseMatch(s[off + k], pat[k])

StepWord == <<"S","t","e","p">>

VStrainPat == <<"v","_","s","t","r","a","i","n">>

StrainPat == <<"s","t","r","a","i","n">>

SxyPat == <<"s","x","y">>

PxyPat == <<"p","x","y">>

\* ------------------------------------------------------------ the log text
\* f.readlines(): every line keeps its line terminator.
ReadLines(log) == [i \in 1..Len(log) |-> log[i] \o <<"\n">>]

\* re.search(r'^Step\b', ln): "Step" at the very start of the line, followed
\* by a non-word character or the end of the line.
StepAtStart(ln) ==
  /\ Len(ln) >= 4
  /\ SubSeq(ln, 1, 4) = StepWord
  /\ (Len(ln) = 4 \/ ~IsWordChar(ln[5]))

\* The condition of line 28.
HeaderMatch(ln) == StepAtStart(ln) /\ SearchIgnoreCase(ln, VStrainPat)

\* The loop of lines 26-29: the index of the last matching line (1-based),
\* 0 for None.
HeaderIdx(lines) ==
  IF \A i \in 1..Len(lines) : ~HeaderMatch(lines[i]) THEN 0
  ELSE CHOOSE i \in 1..Len(lines) :
         /\ HeaderMatch(lines[i])
         /\ \A j \in (i+1)..Len(lines) : ~HeaderMatch(lines[j])

\* re.match(r'^\s*[-+]?\d', ln)
NumericLooking(ln) ==
  LET i == FirstNonSpace(ln)
  IN /\ i <= Len(ln)
     /\ \/ IsDigit(ln[i])
        \/ /\ ln[i] \in {"-", "+"}
           /\ i + 1 <= Len(ln)
           /\ IsDigit(ln[i + 1])

\* ln.strip() == ''
IsBlank(ln) == Strip(ln) = <<>>

\* parts[:n]
Truncate(parts, n) ==
  SubSeq(parts, 1, IF Len(parts) < n THEN Len(parts) ELSE n)

\* Faulty variant of line 42: only a row of exactly n tokens is kept.
KeepRowExact(parts, n) == Len(parts) = n

\* Faulty variant of line 42: every row is kept, whatever its length.
KeepRowAlways(parts, n) == TRUE

\* The condition of line 42.
KeepRow(parts, n) == Len(parts) >= n

\* The loop of lines 37-45 from line j on, for a header of n columns.  Each
\* element is a row appended at line 43; src records the line it came from.
RECURSIVE CollectFrom(_, _, _)
CollectFrom(lines, j, n) ==
  IF j > Len(lines) THEN <<>>
  ELSE IF IsBlank(lines[j]) THEN <<>>
  ELSE IF NumericLooking(lines[j]) THEN
    LET parts == SplitWs(Strip(lines[j]))
    IN (IF KeepRow(parts, n)
        THEN << [src |-> j, cells |-> Truncate(parts, n)] >>
        ELSE <<>>) \o CollectFrom(lines, j + 1, n)
  ELSE <<>>

\* ----------------------------------------------------------- pd.to_numeric
\* The tokens pd.to_numeric converts: an optional sign, then digits with at
\* most one decimal point and at least one digit.
IsNumericTok(tok) ==
  LET b == IF Len(tok) > 0 /\ tok[1] \in {"-", "+"} THEN Tail(tok) ELSE tok
  IN /\ \A i \in 1..Len(b) : IsDigit(b[i]) \/ b[i] = "."
     /\ \E i \in 1..Len(b) : IsDigit(b[i])
     /\ Cardinality({i \in 1..Len(b) : b[i] = "."}) <= 1

DigitVal(c) == (CHOOSE i \in 1..10 : DigitSeq[i] = c) - 1

RECURSIVE DigitsValue(_)
DigitsValue(s) ==
  IF s = <<>> THEN 0
  ELSE 10 * DigitsValue(SubSeq(s, 1, Len(s) - 1)) + DigitVal(s[Len(s)])

RECURSIVE Normalise(_, _)
Normalise(m, e) ==
  IF e > 0 /\ m % 10 = 0 THEN Normalise(m \div 10, e - 1)
  ELSE [m |-> m, e |-> e]

\* The number a numeric token converts to: m * 10^(-e), with no trailing
\* zero in the fraction ("0.50" and "0.5" are the same number).
ToNumber(tok) ==
  LET neg == Len(tok) > 0 /\ tok[1] = "-"
      b == IF Len(tok) > 0 /\ tok[1] \in {"-", "+"} THEN Tail(tok) ELSE tok
      dot == IF \E i \in 1..Len(b) : b[i] = "."
             THEN CHOOSE i \in 1..Len(b) : b[i] = "." ELSE Len(b) + 1
      digits == SubSeq(b, 1, dot - 1) \o SubSeq(b, dot + 1, Len(b))
      v == Normalise(DigitsValue(digits), Len(b) - (IF dot > Len(b) THEN Len(b) ELSE dot))
  IN [m |-> IF neg THEN 0 - v.m ELSE v.m, e |-> v.e]

\* ------------------------------------------------------------------ errors
HeaderNotFoundError ==
  [kind |-> "HeaderNotFound", exc |-> "RuntimeError",
   msg |-> "Could not find thermo table header in log file.", detail |-> <<>>]

NonNumericCellError(tok) ==
  [kind |-> "NonNumericCell", exc |-> "ValueError",
   msg |-> "Unable to parse string", detail |-> <<tok>>]

StrainColumnMissingError ==
  [kind |-> "StrainColumnMissing", exc |-> "RuntimeError",
   msg |-> "Could not find strain column", detail |-> <<>>]

StressColumnMissingError ==
  [kind |-> "StressColumnMissing", exc |-> "RuntimeError",
   msg |-> "Could not find shear stress column (Sxy or Pxy)", detail |-> <<>>]

SeriesNot1DError ==
  [kind |-> "SeriesNot1D", exc |-> "ValueError",
   msg |-> "Per-column arrays must each be 1-dimensional", detail |-> <<>>]

ClassificationError ==
  [kind |-> "ClassificationFailed", exc |-> "Exception",
   msg |-> "ovito", detail |-> <<>>]

\* ---------------------------------------------------------- table assembly
\* The cells pd.to_numeric cannot convert, as <<column, row>>.
BadCells(data_rows) ==
  UNION { { <<c, r>> : c \in {k \in 1..Len(data_rows[r].cells) :
                                ~IsNumericTok(data_rows[r].cells[k])} } :
          r \in 1..Len(data_rows) }

\* Faulty variant of line 47: a table that silently loses the rows holding a
\* cell that does not convert.
ToNumericFrameDropBad(colnames, data_rows) ==
  LET good == SelectSeq(data_rows,
                LAMBDA r : \A c \in 1..Len(r.cells) : IsNumericTok(r.cells[c]))
  IN [ok |-> TRUE, err |-> <<>>,
      table |-> << [colnames |-> colnames,
                    rows |-> [r \in 1..Len(good) |->
                               [c \in 1..Len(good[r].cells) |->
                                  ToNumber(good[r].cells[c])]]] >>]

\* Line 47: pd.DataFrame(data_rows, columns=colnames).apply(pd.to_numeric).
\* apply converts column by column, so the first cell that fails is the
\* topmost bad cell of the leftmost column holding one.
ToNumericFrame(colnames, data_rows) ==
  LET bad == BadCells(data_rows)
  IN IF bad # {}
     THEN LET first == CHOOSE cr \in bad :
                         \A o \in bad :
                           cr[1] < o[1] \/ (cr[1] = o[1] /\ cr[2] <= o[2])
          IN [ok |-> FALSE,
              err |-> << NonNumericCellError(data_rows[first[2]].cells[first[1]]) >>,
              table |-> <<>>]
     ELSE [ok |-> TRUE, err |-> <<>>,
           table |-> << [colnames |-> colnames,
                         rows |-> [r \in 1..Len(data_rows) |->
                                    [c \in 1..Len(data_rows[r].cells) |->
                                       ToNumber(data_rows[r].cells[c])]]] >>]

\* parse_thermo_log.  table and err are sequences of length 0 or 1 (None or
\* a value); data_rows is the local of line 36 as it stood when the
\* function returned or raised.
ParseThermoLog(log) ==
  LET lines == ReadLines(log)
      h == HeaderIdx(lines)
  IN IF h = 0
     THEN [ok |-> FALSE, err |-> <<HeaderNotFoundError>>, table |-> <<>>,
           data_rows |-> <<>>]
     ELSE LET colnames == SplitWs(Strip(lines[h]))
              data_rows == CollectFrom(lines, h + 1, Len(colnames))
              r == ToNumericFrame(colnames, data_rows)
          IN [ok |-> r.ok, err |-> r.err, table |-> r.table,
              data_rows |-> data_rows]

\* --------------------------------------------------------- column detection
\* Faulty variant of lines 104-111: pat in c, the letter case kept.
NameHasCaseSensitive(c, pat) == ContainsSub(c, pat)

\* pat in c.lower()
NameHas(c, pat) == ContainsSub(LowerStr(c), pat)

\* [c for c in thermo.columns if pat in c.lower()]
Candidates(cols, pat) == SelectSeq(cols, LAMBDA c : NameHas(c, pat))

\* Faulty variant of lines 107 and 114: candidates[-1].
PickLast(cands) == cands[Len(cands)]

\* candidates[0]
PickColumn(cands) == Head(cands)

\* thermo[name].values: one value per row.  A name carried by one column
\* gives that column's cells; a name carried by several columns gives, per
\* row, the cells of all of them (a 2-dimensional array).
ColumnValues(table, name) ==
  LET idx == SelectSeq([j \in 1..Len(table.colnames) |-> j],
                       LAMBDA j : table.colnames[j] = name)
  IN [r \in 1..Len(table.rows) |->
        IF Len(idx) = 1 THEN table.rows[r][idx[1]]
        ELSE [k \in 1..Len(idx) |-> table.rows[r][idx[k]]]]

\* Whether thermo[name].values is 1-dimensional.
Is1D(table, name) ==
  Cardinality({j \in 1..Len(table.colnames) : table.colnames[j] = name}) = 1

\* Lines 104-119 of main.
ResolveSeries(table) ==
  LET strain_cands == Candidates(table.colnames, StrainPat)
      sxy_cands == Candidates(table.colnames, SxyPat)
      stress_cands == IF sxy_cands = <<>>
                      THEN Candidates(table.colnames, PxyPat) ELSE sxy_cands
      failed(e) == [ok |-> FALSE, err |-> <<e>>, strain_col |-> <<>>,
                    stress_col |-> <<>>, strain |-> <<>>, stress |-> <<>>]
  IN IF strain_cands = <<>> THEN failed(StrainColumnMissingError)
     ELSE IF stress_cands = <<>> THEN failed(StressColumnMissingError)
     ELSE [ok |-> TRUE, err |-> <<>>,
           strain_col |-> PickColumn(strain_cands),
           stress_col |-> PickColumn(stress_cands),
           strain |-> ColumnValues(table, PickColumn(strain_cands)),
           stress |-> ColumnValues(table, PickColumn(stress_cands))]

\* ------------------------------------------------------------- CNA defects
\* A frame of the dump as OVITO computes it: the per-atom structure types
\* (1 = FCC), or a frame whose computation raises.
FrameAlphabet ==
  { [ok |-> TRUE, structure |-> <<1, 1>>],
    [ok |-> TRUE, structure |-> <<2, 0>>],
    [ok |-> FALSE, structure |-> <<>>] }

\* The dump files: one import_file cannot read, or a trajectory of frames.
Dumps ==
  { [readable |-> FALSE, frames |-> <<>>] } \cup
  { [readable |-> TRUE, frames |-> f] :
      f \in UNION { [1..n -> FrameAlphabet] : n \in 0..MaxFrames } }

\* np.sum(structure != 1)
CountNonFCC(structure) ==
  Cardinality({i \in 1..Len(structure) : structure[i] # 1})

\* compute_cna_defects: raises when the import or any frame's computation
\* raises; otherwise (np.arange(nframes), defect_counts, total_atoms), with
\* total_atoms a sequence of length 0 (None) or 1.
ComputeCnaDefects(dump) ==
  IF ~dump.readable \/ \E k \in 1..Len(dump.frames) : ~dump.frames[k].ok
  THEN [ok |-> FALSE, frames |-> <<>>, defect_counts |-> <<>>,
        total_atoms |-> <<>>]
  ELSE [ok |-> TRUE,
        frames |-> [k \in 1..Len(dump.frames) |-> k - 1],
        defect_counts |-> [k \in 1..Len(dump.frames) |->
                             CountNonFCC(dump.frames[k].structure)],
        total_atoms |-> IF dump.frames = <<>> THEN <<>>
                        ELSE << Len(dump.frames[1].structure) >>]

\* np.linspace(0, stop, num) as exact fractions num/den.
Linspace(stop, num) ==
  [k \in 1..num |->
     IF num = 1 THEN [num |-> 0, den |-> 1]
     ELSE [num |-> (k - 1) * stop, den |-> num - 1]]

\* ------------------------------------------------------------------ inputs
\* "Step v_strain Pxy": a header at column 0
LineHeader ==
  <<"S","t","e","p"," ","v","_","s","t","r","a","i","n"," ","P","x","y">>

\* "  Step V_Strain Sxy": a header indented by two spaces
LineHeaderIndented ==
  <<" "," ","S","t","e","p"," ","V","_","S","t","r","a","i","n"," ","S","x","y">>

\* "Step v_strain": a header with no stress column
LineHeaderNoStress ==
  <<"S","t","e","p"," ","v","_","s","t","r","a","i","n">>

\* "Step v_<long s>train Sxy": a header whose strain column is spelt with the long s
LineHeaderLongS ==
  <<"S","t","e","p"," ","v","_",LongS,"t","r","a","i","n"," ","S","x","y">>

\* "Step\tV_STRAIN  Pxy Sxy": a header of four columns, capitals, tab and double space
LineHeaderWide ==
  <<"S","t","e","p","\t","V","_","S","T","R","A","I","N"," "," ","P","x","y"," ","S","x","y">>

\* "Steps v_strain Pxy": not a header: no word boundary after Step
LineSteps ==
  <<"S","t","e","p","s"," ","v","_","s","t","r","a","i","n"," ","P","x","y">>

\* "Step Temp Pxy": not a header: no v_strain
LineNoStrain ==
  <<"S","t","e","p"," ","T","e","m","p"," ","P","x","y">>

\* "1 0.5 2 7": a row of four numbers
LineRow ==
  <<"1"," ","0",".","5"," ","2"," ","7">>

\* " -2 1 3 x": an indented, signed row with a trailing annotation
LineRowExtra ==
  <<" ","-","2"," ","1"," ","3"," ","x">>

\* "3 abc 1": a row with a cell that is not a number
LineRowBad ==
  <<"3"," ","a","b","c"," ","1">>

\* "4 5": a row of two numbers
LineRowShort ==
  <<"4"," ","5">>

\* " ": a line of whitespace
LineBlank ==
  <<" ">>

LineAlphabet ==
  {LineHeader,
   LineHeaderIndented,
   LineHeaderNoStress,
   LineHeaderLongS,
   LineHeaderWide,
   LineSteps,
   LineNoStrain,
   LineRow,
   LineRowExtra,
   LineRowBad,
   LineRowShort,
   LineBlank}

\* The log files: up to MaxLines lines.
Logs == UNION { [1..n -> LineAlphabet] : n \in 0..MaxLines }

NameStep == <<"S","t","e","p">>

NameVStrain == <<"v","_","s","t","r","a","i","n">>

NameStrainCaps == <<"V","_","S","T","R","A","I","N">>

NamePxy == <<"P","x","y">>

NameSxy == <<"S","x","y">>

NameCSxy == <<"c","_","s","x","y">>

ColNameAlphabet ==
  {NameStep, NameVStrain, NameStrainCaps, NamePxy, NameSxy, NameCSxy}

\* The tables handed to the column detection on its own: up to MaxCols
\* columns, names repeated or not, up to MaxRows rows, every cell a
\* different number (10 * row + column) so that a cell tells where it
\* came from.
Tables ==
  { [colnames |-> cn,
     rows |-> [r \in 1..nr |-> [c \in 1..Len(cn) |-> [m |-> 10 * r + c, e |-> 0]]]] :
      cn \in UNION { [1..n -> ColNameAlphabet] : n \in 0..MaxCols },
      nr \in 0..MaxRows }

\* ------------------------------------------------------------------- state
VARIABLES
  log,         \* the lines of the log file (args.log)
  pc,          \* where main is: the next step, "done" or "failed"
  thermo,      \* <<>> or <<table>>: parse_thermo_log's result
  data_rows,   \* parse_thermo_log's data_rows when it returned or raised
  err,         \* <<>> or <<exception>>: the error that reached the caller
  strain_col,  \* the selected column names
  stress_col,
  strain,      \* thermo[strain_col].values
  stress,
  files,       \* the output files written so far
  ss_csv,      \* the rows of stress_strain.csv
  defects,     \* compute_cna_defects' result and frame_times
  def_csv      \* the rows of defects_vs_time.csv

vars == <<log, pc, thermo, data_rows, err, strain_col, stress_col, strain,
          stress, files, ss_csv, defects, def_csv>>

NoDefects ==
  [frames |-> <<>>, defect_counts |-> <<>>, total_atoms |-> <<>>,
   frame_times |-> <<>>]

Init ==
  /\ log \in Logs
  /\ pc = "parse"
  /\ thermo = <<>>
  /\ data_rows = <<>>
  /\ err = <<>>
  /\ strain_col = <<>>
  /\ stress_col = <<>>
  /\ strain = <<>>
  /\ stress = <<>>
  /\ files = {}
  /\ ss_csv = <<>>
  /\ defects = NoDefects
  /\ def_csv = <<>>

\* The column detection entered with a table of its own.
InitResolve ==
  /\ log = <<>>
  /\ pc = "resolve"
  /\ thermo \in { <<t>> : t \in Tables }
  /\ data_rows = <<>>
  /\ err = <<>>
  /\ strain_col = <<>>
  /\ stress_col = <<>>
  /\ strain = <<>>
  /\ stress = <<>>
  /\ files = {}
  /\ ss_csv = <<>>
  /\ defects = NoDefects
  /\ def_csv = <<>>

\* ----------------------------------------------------------------- actions
\* main, line 100
ParseLog ==
  /\ pc = "parse"
  /\ LET r == ParseThermoLog(log)
     IN /\ thermo' = r.table
        /\ data_rows' = r.data_rows
        /\ err' = r.err
        /\ pc' = IF r.ok THEN "resolve" ELSE "failed"
  /\ UNCHANGED <<log, strain_col, stress_col, strain, stress, files, ss_csv,
                 defects, def_csv>>

\* main, lines 104-119
ResolveColumns ==
  /\ pc = "resolve"
  /\ LET r == ResolveSeries(thermo[1])
     IN /\ strain_col' = r.strain_col
        /\ stress_col' = r.stress_col
        /\ strain' = r.strain
        /\ stress' = r.stress
        /\ err' = r.err
        /\ pc' = IF r.ok THEN "save_csv" ELSE "failed"
  /\ UNCHANGED <<log, thermo, data_rows, files, ss_csv, defects, def_csv>>

\* main, lines 122-125: pd.DataFrame of the two series raises when one of
\* them is 2-dimensional, before the file is opened.
SaveStressStrainCsv ==
  /\ pc = "save_csv"
  /\ IF Is1D(thermo[1], strain_col) /\ Is1D(thermo[1], stress_col)
     THEN /\ ss_csv' = [i \in 1..Len(strain) |->
                          [strain |-> strain[i], shear_stress |-> stress[i]]]
          /\ files' = files \cup {"stress_strain.csv"}
          /\ pc' = "plot_ss"
          /\ err' = err
     ELSE /\ err' = <<SeriesNot1DError>>
          /\ pc' = "failed"
          /\ UNCHANGED <<ss_csv, files>>
  /\ UNCHANGED <<log, thermo, data_rows, strain_col, stress_col, strain,
                 stress, defects, def_csv>>

\* main, lines 128-129, plot_stress_strain
PlotStressStrain ==
  /\ pc = "plot_ss"
  /\ files' = files \cup {"stress_strain.png"}
  /\ pc' = "cna"
  /\ UNCHANGED <<log, thermo, data_rows, err, strain_col, stress_col, strain,
                 stress, ss_csv, defects, def_csv>>

\* main, lines 132-134: compute_cna_defects on the dump file given.
ComputeDefects ==
  /\ pc = "cna"
  /\ \E dump \in Dumps :
       LET r == ComputeCnaDefects(dump)
       IN IF r.ok
          THEN /\ defects' = [frames |-> r.frames,
                              defect_counts |-> r.defect_counts,
                              total_atoms |-> r.total_atoms,
                              frame_times |-> Linspace(Len(strain) - 1, Len(r.frames))]
               /\ pc' = "save_defects"
               /\ err' = err
          ELSE /\ err' = <<ClassificationError>>
               /\ pc' = "failed"
               /\ defects' = defects
  /\ UNCHANGED <<log, thermo, data_rows, strain_col, stress_col, strain,
                 stress, files, ss_csv, def_csv>>

\* main, lines 137-139
SaveDefectsCsv ==
  /\ pc = "save_defects"
  /\ def_csv' = [k \in 1..Len(defects.frames) |->
                   [frame |-> defects.frames[k],
                    time |-> defects.frame_times[k],
                    defect_count |-> defects.defect_counts[k]]]
  /\ files' = files \cup {"defects_vs_time.csv"}
  /\ pc' = "plot_defects"
  /\ UNCHANGED <<log, thermo, data_rows, err, strain_col, stress_col, strain,
                 stress, ss_csv, defects>>

\* main, lines 142-145, plot_defects
PlotDefects ==
  /\ pc = "plot_defects"
  /\ files' = files \cup {"defects_vs_time.png"}
  /\ pc' = "done"
  /\ UNCHANGED <<log, thermo, data_rows, err, strain_col, stress_col, strain,
                 stress, ss_csv, defects, def_csv>>

Next ==
  \/ ParseLog
  \/ ResolveColumns
  \/ SaveStressStrainCsv
  \/ PlotStressStrain
  \/ ComputeDefects
  \/ SaveDefectsCsv
  \/ PlotDefects

\* main run on a log file.
Spec == Init /\ [][Next]_vars

NextResolve ==
  \/ ResolveColumns
  \/ SaveStressStrainCsv

\* The column detection run on every table.
SpecResolve == InitResolve /\ [][NextResolve]_vars

\* ------------------------------------------------- vocabulary of the claims
Lines == ReadLines(log)

\* A character of the ASCII range: every character of the inputs but the
\* long s.
IsAscii(c) == c # LongS

Range(f) == {f[i] : i \in DOMAIN f}

SetMax(S) == CHOOSE x \in S : \A y \in S : y <= x

SetMin(S) == CHOOSE x \in S : \A y \in S : x <= y

FailedWith(k) == pc = "failed" /\ err # <<>> /\ err[1].kind = k

\* parse_thermo_log has just returned or raised.
ParseExit ==
  \/ pc = "resolve"
  \/ FailedWith("HeaderNotFound")
  \/ FailedWith("NonNumericCell")

\* The column detection has just finished or raised.
ResolveExit ==
  \/ pc = "save_csv"
  \/ FailedWith("StrainColumnMissing")
  \/ FailedWith("StressColumnMissing")

\* The specification's header rule: after leading whitespace the line starts
\* with the token Step, and it contains v_strain in any letter case.
SpecHeaderCandidate(ln) ==
  LET t == SubSeq(ln, FirstNonSpace(ln), Len(ln))
  IN /\ Len(t) >= 4
     /\ SubSeq(t, 1, 4) = StepWord
     /\ (Len(t) = 4 \/ ~IsWordChar(t[5]))
     /\ SearchIgnoreCase(ln, VStrainPat)

SpecCandidates == {i \in 1..Len(Lines) : SpecHeaderCandidate(Lines[i])}

\* The whitespace-separated tokens of line j.
Parts(j) == SplitWs(Strip(Lines[j]))

\* Line j lies in the run of non-blank, numeric-looking lines that starts
\* right after line h.
InRun(h, j) ==
  /\ h < j
  /\ j <= Len(Lines)
  /\ \A i \in (h+1)..j : ~IsBlank(Lines[i]) /\ NumericLooking(Lines[i])

RunLen(h) == Cardinality({j \in 1..Len(Lines) : InRun(h, j)})

\* The header the parser selected (0: none) and its number of columns.
Hdr == HeaderIdx(Lines)

NCols == Len(Parts(Hdr))

\* Every token the parser retains converts to a number.
RetainedNumeric ==
  \A j \in 1..Len(Lines) :
    (InRun(Hdr, j) /\ Len(Parts(j)) >= NCols) =>
      \A c \in 1..NCols : IsNumericTok(Parts(j)[c])

\* The rows recorded from line j.
RowsOf(j) == {k \in 1..Len(data_rows) : data_rows[k].src = j}

\* The reference of the column detection: letter case ignored (ASCII), the
\* leftmost match, and the values of a column (of all columns of that name,
\* when the name is repeated).
RefAsciiUpper(p) ==
  IF p \in LowerSet THEN UpperSeq[CHOOSE i \in 1..26 : LowerSeq[i] = p] ELSE p

RefHas(name, pat) ==
  \E off \in 0..(Len(name) - Len(pat)) :
    \A k \in 1..Len(pat) : name[off + k] \in {pat[k], RefAsciiUpper(pat[k])}

RefLeftmost(cols, pat) ==
  IF \A j \in 1..Len(cols) : ~RefHas(cols[j], pat) THEN 0
  ELSE SetMin({j \in 1..Len(cols) : RefHas(cols[j], pat)})

RefColumn(t, j) ==
  LET same == {i \in 1..Len(t.colnames) : t.colnames[i] = t.colnames[j]}
  IN [r \in 1..Len(t.rows) |->
        IF same = {j} THEN t.rows[r][j]
        ELSE [k \in 1..Cardinality(same) |->
                t.rows[r][CHOOSE i \in same :
                            Cardinality({x \in same : x < i}) = k - 1]]]

\* ------------------------------------------------------------------ claims
\* C1: the parser fails with HeaderNotFound if and only if no line of the
\* log starts, after leading whitespace, with the token Step and contains
\* v_strain in some letter case; an indented header is parsed, not rejected.
C1_HeaderDetection ==
  ParseExit =>
    (FailedWith("HeaderNotFound") <=> SpecCandidates = {})

\* C2: with two or more qualifying header lines, the returned table has the
\* column names of the last qualifying line and every row comes from a line
\* after it.
C2_LastHeaderWins ==
  (pc = "resolve" /\ Cardinality(SpecCandidates) >= 2) =>
    LET h == SetMax(SpecCandidates)
    IN /\ thermo[1].colnames = Parts(h)
       /\ \A k \in 1..Len(data_rows) : data_rows[k].src > h

\* C3: a log with exactly one header followed by a well-formed block of rows
\* (at least one row; every line of the run has at least as many tokens as
\* the header and its retained tokens are numbers) yields a table with one
\* row per line of the run, in order, and one column per header token.
C3_OneBlock ==
  (ParseExit /\ Cardinality(SpecCandidates) = 1) =>
    LET h == SetMax(SpecCandidates)
        n == Len(Parts(h))
        wellFormed ==
          /\ RunLen(h) >= 1
          /\ \A j \in 1..Len(Lines) : InRun(h, j) =>
               /\ Len(Parts(j)) >= n
               /\ \A c \in 1..n : IsNumericTok(Parts(j)[c])
    IN wellFormed =>
         /\ thermo # <<>>
         /\ Len(thermo[1].colnames) = n
         /\ Len(thermo[1].rows) = RunLen(h)
         /\ \A r \in 1..Len(thermo[1].rows) :
              thermo[1].rows[r] = [c \in 1..n |-> ToNumber(Parts(h + r)[c])]

\* C4: a retained token that does not convert makes the parser fail with
\* NonNumericCell and return no table; a returned table has one row of
\* numbers for every collected row.
C4_NonNumericCellIsFatal ==
  ParseExit =>
    /\ (\E k \in 1..Len(data_rows) :
          \E c \in 1..Len(data_rows[k].cells) :
            ~IsNumericTok(data_rows[k].cells[c]))
         => (FailedWith("NonNumericCell") /\ thermo = <<>>)
    /\ thermo # <<>> =>
         /\ Len(thermo[1].rows) = Len(data_rows)
         /\ \A k \in 1..Len(data_rows) :
              /\ \A c \in 1..Len(data_rows[k].cells) :
                   IsNumericTok(data_rows[k].cells[c])
              /\ thermo[1].rows[k] =
                   [c \in 1..Len(data_rows[k].cells) |->
                      ToNumber(data_rows[k].cells[c])]

\* C4's case: the parser failed with NonNumericCell although it had also
\* collected a row that converts, and produced no table.
C4_Witness ==
  /\ FailedWith("NonNumericCell")
  /\ thermo = <<>>
  /\ Len(data_rows) >= 2
  /\ \E k \in 1..Len(data_rows) :
       \A c \in 1..Len(data_rows[k].cells) : IsNumericTok(data_rows[k].cells[c])

\* C5: a numeric-looking line of the block with more tokens than the header
\* has columns is recorded as exactly one row, its first NCols tokens; the
\* extra tokens are not inspected, so the parse succeeds whenever the
\* retained tokens are numbers.
C5_ExtraTokensDropped ==
  (ParseExit /\ Hdr # 0) =>
    /\ \A j \in 1..Len(Lines) :
         (InRun(Hdr, j) /\ Len(Parts(j)) > NCols) =>
           /\ Cardinality(RowsOf(j)) = 1
           /\ \A k \in RowsOf(j) :
                data_rows[k].cells = SubSeq(Parts(j), 1, NCols)
    /\ RetainedNumeric => (thermo # <<>> /\ ~FailedWith("NonNumericCell"))

\* C5's case: a table was returned with a row taken from a line whose
\* trailing extra token is not a number.
C5_Witness ==
  /\ thermo # <<>>
  /\ \E k \in 1..Len(data_rows) :
       LET parts == Parts(data_rows[k].src)
       IN /\ Len(parts) > NCols
          /\ \E c \in (NCols+1)..Len(parts) : ~IsNumericTok(parts[c])
          /\ Len(thermo[1].rows[k]) = NCols

\* What C6 says of one state.
C6_State ==
  pc # "resolve" =>
    LET t == thermo[1]
        s == RefLeftmost(t.colnames, StrainPat)
        x == RefLeftmost(t.colnames, SxyPat)
        q == IF x # 0 THEN x ELSE RefLeftmost(t.colnames, PxyPat)
    IN IF s = 0 THEN FailedWith("StrainColumnMissing")
       ELSE IF q = 0 THEN FailedWith("StressColumnMissing")
       ELSE /\ ~FailedWith("StrainColumnMissing")
            /\ ~FailedWith("StressColumnMissing")
            /\ strain_col = t.colnames[s]
            /\ stress_col = t.colnames[q]
            /\ Len(strain) = Len(t.rows)
            /\ Len(stress) = Len(t.rows)
            /\ strain = RefColumn(t, s)
            /\ stress = RefColumn(t, q)

\* C6: the column detection picks the leftmost column containing "strain",
\* and the leftmost containing "sxy" or, when none does, the leftmost
\* containing "pxy" (letter case ignored); it fails with StrainColumnMissing
\* or StressColumnMissing when there is none.  Both series have one element
\* per table row, taken from that row.  The table is never modified.
C6_ColumnResolution == [](C6_State) /\ [][thermo' = thermo]_vars

\* C6's case: a table with rows in which a "pxy" column stands to the left
\* of an "sxy" column, resolved to the "sxy" column.
C6_Witness ==
  /\ pc = "save_csv"
  /\ Len(thermo[1].rows) >= 2
  /\ LET p == RefLeftmost(thermo[1].colnames, PxyPat)
         x == RefLeftmost(thermo[1].colnames, SxyPat)
     IN /\ 0 < p
        /\ p < x
        /\ stress_col = thermo[1].colnames[x]
        /\ stress[2] = thermo[1].rows[2][x]

\* C7: when a run has failed, none of the output files has been written.
C7_NoPartialOutput == pc = "failed" => files = {}

\* C8: a StrainColumnMissing or StressColumnMissing error carries the names
\* of the table's columns.
C8_ErrorCarriesColumns ==
  (FailedWith("StrainColumnMissing") \/ FailedWith("StressColumnMissing")) =>
    \A c \in Range(thermo[1].colnames) : c \in Range(err[1].detail)

\* C9, as stated: in a run from a log, StrainColumnMissing never occurs.
C9_StrainNeverMissing == ~FailedWith("StrainColumnMissing")

\* C9, amended: when the selected header line is ASCII text, the run never
\* fails with StrainColumnMissing, and once the columns are resolved the
\* strain column is the leftmost one containing "strain".
C9_StrainNeverMissingAscii ==
  (ResolveExit /\ \A i \in 1..Len(Lines[Hdr]) : IsAscii(Lines[Hdr][i])) =>
    /\ ~FailedWith("StrainColumnMissing")
    /\ pc = "save_csv" =>
         /\ RefLeftmost(thermo[1].colnames, StrainPat) # 0
         /\ strain_col = thermo[1].colnames[RefLeftmost(thermo[1].colnames, StrainPat)]

\* C9's case: a header that spells the strain column in capitals was
\* accepted and the column was resolved.
C9_Witness ==
  /\ pc = "save_csv"
  /\ \A i \in 1..Len(Lines[Hdr]) : IsAscii(Lines[Hdr][i])
  /\ strain_col = NameStrainCaps

\* C10: a numeric-looking line of the block with fewer tokens than the
\* header has columns is not recorded, does not end the collection and
\* raises no error; every recorded row has NCols cells.
C10_ShortRowsSkipped ==
  (ParseExit /\ Hdr # 0) =>
    /\ \A k \in 1..Len(data_rows) : Len(data_rows[k].cells) = NCols
    /\ thermo # <<>> =>
         \A r \in 1..Len(thermo[1].rows) : Len(thermo[1].rows[r]) = NCols
    /\ \A j \in 1..Len(Lines) :
         InRun(Hdr, j) =>
           IF Len(Parts(j)) < NCols THEN RowsOf(j) = {} ELSE RowsOf(j) # {}
    /\ RetainedNumeric => thermo # <<>>

\* C10's case: a table was returned that holds a row from a line after a
\* short line of the block, and has fewer rows than the run has lines.
C10_Witness ==
  /\ thermo # <<>>
  /\ Hdr # 0
  /\ \E j \in 1..Len(Lines) :
       /\ InRun(Hdr, j)
       /\ Len(Parts(j)) < NCols
       /\ \E k \in 1..Len(data_rows) : data_rows[k].src > j
  /\ Len(thermo[1].rows) < RunLen(Hdr)
====
